---------------------------- MODULE Spec2Model ----------------------------
(***************************************************************************)
(* Constant evaluation and canonicalisation:                               *)
(*   compiler/rustc_middle/src/ty/consts.rs           (Const, constructors,*)
(*       from_anon_const, try_eval_lit_or_param, eval, numeric accessors)  *)
(*   compiler/rustc_const_eval/src/const_eval/mod.rs  (eval_to_valtree,    *)
(*       try_destructure_mir_constant, const_caller_location)              *)
(* Code the two files call but do not contain (the interner, the valtree   *)
(* builder, ConstKind::eval, the ValTree accessors, lit_to_const) is       *)
(* modelled from spec.md and marked so in MODEL_MAP.json.                  *)
(***************************************************************************)
EXTENDS Integers, Sequences, FiniteSets, TLC

VARIABLES
    arena,      \* the interning arena: Seq of ConstData [ty, kind]; a Const is an index
    calls,      \* history: the set of [data, h] of every constructor call so far
    last,       \* the last operation: its name, inputs and outcome
    ncalls,     \* number of operations performed (bounded)
    delayed,    \* number of delayed bugs registered (tcx.sess.delay_span_bug)
    emitted,    \* number of user diagnostics emitted (tcx.sess.emit_err)
    vt,         \* the running eval_to_valtree invocation
    env,        \* the parameter environment constants are evaluated under
    evals       \* history: the set of [c, r] of every Const::eval call so far

vars == <<arena, calls, last, ncalls, delayed, emitted, vt, env, evals>>

---------------------------------------------------------------------------
(* Bounds of the model *)

MaxInternCalls == 2     \* constructor calls per behaviour
MaxSmallLen == 2        \* field counts / array lengths of the small inputs
MaxValtreeEvals == 2    \* eval_to_valtree invocations per behaviour

---------------------------------------------------------------------------
(* Types, valtrees, constant kinds *)

\* A valtree: Leaf(ScalarInt{data,size}) or Branch(kids); zst is the empty branch.
Leaf(data, size) == [leaf |-> TRUE, data |-> data, size |-> size, kids |-> <<>>]
Branch(kids) == [leaf |-> FALSE, data |-> 0, size |-> 0, kids |-> kids]
ValTree_zst == Branch(<<>>)

\* ConstKind: one tagged record shape for all eight variants.
\*   Param(index,name)  Infer(Var v | Fresh n)  Bound(debruijn,var)  Placeholder(id)
\*   Unevaluated(def,substs)  Value(valtree)  Expr(e)  Error(guar)
Kind(tag, a, b, v) == [tag |-> tag, a |-> a, b |-> b, vt |-> v]
KParam(index, name) == Kind("Param", index, name, ValTree_zst)
KInferVar(vid) == Kind("Infer", vid, 0, ValTree_zst)
KInferFresh(n) == Kind("Infer", n, 1, ValTree_zst)
KBound(debruijn, var) == Kind("Bound", debruijn, var, ValTree_zst)
KPlaceholder(p) == Kind("Placeholder", p, 0, ValTree_zst)
KUnevaluated(def, substs) == Kind("Unevaluated", def, substs, ValTree_zst)
KValue(v) == Kind("Value", 0, 0, v)
KExpr(e) == Kind("Expr", e, 0, ValTree_zst)
KError(guar) == Kind("Error", guar, 0, ValTree_zst)

ConstData(ty, kind) == [ty |-> ty, kind |-> kind]

---------------------------------------------------------------------------
(* Interning *)

\* tcx.mk_ct_from_kind: the content-addressed store keyed by (type, kind).
\* Returns the arena after the call and the handle.
mk_ct_from_kind(ar, kind, ty) ==
    LET d == ConstData(ty, kind)
        hits == {i \in 1..Len(ar) : ar[i] = d}
    IN  IF hits # {}
        THEN [arena |-> ar, h |-> CHOOSE i \in hits : TRUE]
        ELSE [arena |-> Append(ar, d), h |-> Len(ar) + 1]

Const_new_DropsType(ar, kind, ty) == mk_ct_from_kind(ar, kind, "usize")

Const_new(ar, kind, ty) == mk_ct_from_kind(ar, kind, ty)

new_param(ar, index, name, ty) == Const_new(ar, KParam(index, name), ty)
new_var(ar, vid, ty) == Const_new(ar, KInferVar(vid), ty)
new_fresh(ar, n, ty) == Const_new(ar, KInferFresh(n), ty)
new_bound(ar, debruijn, var, ty) == Const_new(ar, KBound(debruijn, var), ty)
new_placeholder(ar, p, ty) == Const_new(ar, KPlaceholder(p), ty)
new_unevaluated(ar, def, substs, ty) == Const_new(ar, KUnevaluated(def, substs), ty)
new_value(ar, v, ty) == Const_new(ar, KValue(v), ty)
new_expr(ar, e, ty) == Const_new(ar, KExpr(e), ty)
new_error(ar, guar, ty) == Const_new(ar, KError(guar), ty)

Const_ty(ar, c) == ar[c].ty
Const_kind(ar, c) == ar[c].kind

---------------------------------------------------------------------------
(* State after construction of the context *)

NoOp == [op |-> "none"]
VtIdle == [pc |-> "idle"]

Init ==
    /\ arena = <<>>
    /\ calls = {}
    /\ last = NoOp
    /\ ncalls = 0
    /\ delayed = 0
    /\ emitted = 0
    /\ vt = VtIdle
    /\ env = 1
    /\ evals = {}

---------------------------------------------------------------------------
(* Constructor calls *)

InternTys == {"bool", "usize", "T"}
Payloads == {0, 1}
InternValTrees == {Leaf(1, 1), Leaf(0, 1), Leaf(5, 8), ValTree_zst}

\* One constructor call: the call's data, the handle and arena it returned, and
\* what the arena held before.
Constructed(ctor, kind, ty, r) ==
    /\ arena' = r.arena
    /\ calls' = calls \cup {[data |-> ConstData(ty, kind), h |-> r.h]}
    /\ last' = [op |-> ctor, data |-> ConstData(ty, kind), h |-> r.h,
                before |-> arena]
    /\ ncalls' = ncalls + 1
    /\ UNCHANGED <<env, evals, delayed, emitted, vt>>

NewParam ==
    \E i \in Payloads, n \in Payloads, ty \in InternTys :
        Constructed("new_param", KParam(i, n), ty, new_param(arena, i, n, ty))

NewVar ==
    \E v \in Payloads, ty \in InternTys :
        Constructed("new_var", KInferVar(v), ty, new_var(arena, v, ty))

NewFresh ==
    \E n \in Payloads, ty \in InternTys :
        Constructed("new_fresh", KInferFresh(n), ty, new_fresh(arena, n, ty))

NewBound ==
    \E d \in Payloads, v \in Payloads, ty \in InternTys :
        Constructed("new_bound", KBound(d, v), ty, new_bound(arena, d, v, ty))

NewPlaceholder ==
    \E p \in Payloads, ty \in InternTys :
        Constructed("new_placeholder", KPlaceholder(p), ty, new_placeholder(arena, p, ty))

NewUnevaluated ==
    \E d \in Payloads, s \in Payloads, ty \in InternTys :
        Constructed("new_unevaluated", KUnevaluated(d, s), ty,
                    new_unevaluated(arena, d, s, ty))

NewValue ==
    \E v \in InternValTrees, ty \in InternTys :
        Constructed("new_value", KValue(v), ty, new_value(arena, v, ty))

NewExpr ==
    \E e \in Payloads, ty \in InternTys :
        Constructed("new_expr", KExpr(e), ty, new_expr(arena, e, ty))

NewError ==
    \E g \in Payloads, ty \in InternTys :
        Constructed("new_error", KError(g), ty, new_error(arena, g, ty))

NextIntern ==
    \/ (ncalls < MaxInternCalls /\ NewParam)
    \/ (ncalls < MaxInternCalls /\ NewVar)
    \/ (ncalls < MaxInternCalls /\ NewFresh)
    \/ (ncalls < MaxInternCalls /\ NewBound)
    \/ (ncalls < MaxInternCalls /\ NewPlaceholder)
    \/ (ncalls < MaxInternCalls /\ NewUnevaluated)
    \/ (ncalls < MaxInternCalls /\ NewValue)
    \/ (ncalls < MaxInternCalls /\ NewExpr)
    \/ (ncalls < MaxInternCalls /\ NewError)

SpecIntern == Init /\ [][NextIntern]_vars

IsCtorCall == last.op \in {"new_param", "new_var", "new_fresh", "new_bound",
                           "new_placeholder", "new_unevaluated", "new_value",
                           "new_expr", "new_error"}

\* C4: interning is canonical after any sequence of constructor calls: every call
\* returns a handle of the arena that holds exactly the (type, kind) it was given,
\* two calls return the same handle exactly when their (type, kind) are equal, the
\* arena holds no (type, kind) twice, and a call adds exactly one entry when its
\* (type, kind) was not in the arena before and leaves the arena unchanged otherwise.
InterningCanonical ==
    /\ \A c \in calls : c.h \in 1..Len(arena) /\ arena[c.h] = c.data
    /\ \A c1, c2 \in calls : (c1.data = c2.data) <=> (c1.h = c2.h)
    /\ \A i, j \in 1..Len(arena) : arena[i] = arena[j] => i = j
    /\ IsCtorCall =>
         IF \E i \in 1..Len(last.before) : last.before[i] = last.data
         THEN arena = last.before
         ELSE arena = Append(last.before, last.data)

\* The same (type, kind) was constructed twice: one entry, one handle.
InterningWitness ==
    /\ IsCtorCall
    /\ arena = last.before
    /\ Len(arena) = 1
    /\ Cardinality(calls) = 1
    /\ ncalls = 2

---------------------------------------------------------------------------
(* eval_to_valtree and the valtree builder *)

\* We forbid type-level constants that contain more than VALTREE_MAX_NODES nodes.
VALTREE_MAX_NODES == 100000

\* The shape of an evaluated place, by its type: a readable scalar, a scalar whose
\* read fails, a type with no canonical form, or a fixed-size aggregate (an array
\* of len elements of one shape, a tuple/record of the listed fields).
Shape(k, len, elems) == [k |-> k, len |-> len, elems |-> elems]
Scalar == Shape("Scalar", 0, <<>>)
BadScalar == Shape("BadScalar", 0, <<>>)
Unsupported == Shape("Unsupported", 0, <<>>)
Array(len, elem) == Shape("Array", len, <<elem>>)
Tuple(fields) == Shape("Tuple", Len(fields), fields)

IsAggregate(ty) == ty.k \in {"Array", "Tuple"}
FieldShape(ty, i) == IF ty.k = "Array" THEN ty.elems[1] ELSE ty.elems[i]

\* Number of nodes of the canonical tree of a shape (0 marks: no canonical tree).
RECURSIVE NodeCount(_)
NodeCount(ty) ==
    CASE ty.k = "Scalar" -> 1
      [] ty.k = "Array" -> 1 + ty.len * NodeCount(ty.elems[1])
      [] ty.k = "Tuple" ->
            IF ty.len = 0 THEN 1
            ELSE 1 + NodeCount(ty.elems[1])
                   + NodeCount(Tuple(SubSeq(ty.elems, 2, ty.len))) - 1
      [] OTHER -> 0

RECURSIVE Supported(_)
Supported(ty) ==
    CASE ty.k = "Scalar" -> TRUE
      [] ty.k = "Array" -> ty.len = 0 \/ Supported(ty.elems[1])
      [] ty.k = "Tuple" -> \A i \in 1..ty.len : Supported(ty.elems[i])
      [] OTHER -> FALSE

PlainShapes == {Scalar, BadScalar, Unsupported}
SmallTuples ==
    {Tuple(<<>>)} \cup {Tuple(<<a>>) : a \in PlainShapes}
    \cup (IF MaxSmallLen >= 2 THEN {Tuple(<<a, b>>) : a, b \in PlainShapes} ELSE {})
    \cup (IF MaxSmallLen >= 3
          THEN {Tuple(<<a, b, c>>) : a, b, c \in PlainShapes} ELSE {})
SmallShapes ==
    PlainShapes \cup SmallTuples
    \cup {Array(n, e) : n \in 0..MaxSmallLen, e \in PlainShapes \cup SmallTuples}
    \cup {Tuple(<<a, b>>) : a \in SmallTuples, b \in {Scalar, Tuple(<<Scalar>>)}}

\* Shapes at the node ceiling: exactly the ceiling, one more, ten times more.
BigShapes ==
    { Array(VALTREE_MAX_NODES - 1, Scalar),
      Array(VALTREE_MAX_NODES, Scalar),
      Array(10 * VALTREE_MAX_NODES, Scalar),
      Array(VALTREE_MAX_NODES \div 2, Tuple(<<Scalar>>)) }

VtInputs == SmallShapes \cup BigShapes

\* let mut num_nodes = 0;
InitNumNodes_StartsAtOne == 0 + 1

InitNumNodes == 0

\* One node produced by the builder: abort with NodesOverflow when the counter
\* would exceed the ceiling, else count the node.
Produce(b) ==
    IF b.num_nodes + 1 > VALTREE_MAX_NODES
    THEN [b EXCEPT !.pc = "built", !.result = "NodesOverflow", !.built = 0,
                   !.stack = <<>>]
    ELSE [b EXCEPT !.num_nodes = @ + 1, !.built = @ + 1]

Fail(b, err) ==
    [b EXCEPT !.pc = "built", !.result = err, !.built = 0, !.stack = <<>>]

\* The current aggregate's next field is done: advance the parent's index.
Advance(b) ==
    LET n == Len(b.stack)
    IN  [b EXCEPT !.stack[n].idx = @ + 1]

\* The node on top of the stack is complete: return it to its parent, or, for the
\* root, return Ok(valtree).
Return(b) ==
    LET n == Len(b.stack)
    IN  IF b.pc # "build" THEN b
        ELSE IF n = 1 THEN [b EXCEPT !.pc = "built", !.result = "Ok", !.stack = <<>>]
        ELSE Advance([b EXCEPT !.stack = SubSeq(@, 1, n - 1)])

\* const_to_valtree_inner on a place that is not an aggregate.
VisitPlain(b, ty) ==
    CASE ty.k = "Scalar" -> Produce(b)
      [] ty.k = "BadScalar" -> Fail(b, "Other")
      [] OTHER -> Fail(b, "NonSupportedType")

\* eval_to_valtree up to the call of the builder: the allocation is evaluated
\* (an error is propagated with `?`) and the counter starts at 0.
EvalToValtreeStart ==
    /\ vt.pc \in {"idle", "done"}
    /\ ncalls < MaxValtreeEvals
    /\ ncalls' = ncalls + 1
    /\ \E ty \in VtInputs, alloc_ok \in BOOLEAN :
        vt' = IF alloc_ok
              THEN [pc |-> "build", input |-> ty, alloc_ok |-> TRUE,
                    stack |-> <<[ty |-> ty, idx |-> 0]>>,
                    num_nodes |-> InitNumNodes, built |-> 0, result |-> "-",
                    out |-> "-", out_nodes |-> 0, diags |-> 0,
                    emitted_before |-> emitted]
              ELSE [pc |-> "done", input |-> ty, alloc_ok |-> FALSE,
                    stack |-> <<>>, num_nodes |-> 0, built |-> 0, result |-> "-",
                    out |-> "Err", out_nodes |-> 0, diags |-> 0,
                    emitted_before |-> emitted]
    /\ last' = [op |-> "eval_to_valtree"]
    /\ UNCHANGED <<arena, calls, delayed, emitted, env, evals>>

\* The builder entered on a root place that is no aggregate.
BuildRootPlain ==
    /\ vt.pc = "build"
    /\ Len(vt.stack) = 1 /\ ~IsAggregate(vt.stack[1].ty)
    /\ vt' = Return(VisitPlain(vt, vt.stack[1].ty))
    /\ UNCHANGED <<arena, calls, last, ncalls, delayed, emitted, env, evals>>

\* The builder's loop over the fields of the current aggregate: the next field is
\* built (a plain one at once, an aggregate by recursion).
BuildField ==
    /\ vt.pc = "build"
    /\ LET n == Len(vt.stack)
           f == vt.stack[n]
       IN  /\ IsAggregate(f.ty)
           /\ f.idx < f.ty.len
           /\ LET child == FieldShape(f.ty, f.idx + 1)
              IN  vt' = IF IsAggregate(child)
                        THEN [vt EXCEPT !.stack = Append(@, [ty |-> child, idx |-> 0])]
                        ELSE LET b == VisitPlain(vt, child)
                             IN  IF b.pc = "build" THEN Advance(b) ELSE b
    /\ UNCHANGED <<arena, calls, last, ncalls, delayed, emitted, env, evals>>

\* All fields of the current aggregate are built: they are wrapped in a branch node.
BuildBranch ==
    /\ vt.pc = "build"
    /\ LET n == Len(vt.stack)
           f == vt.stack[n]
       IN  /\ IsAggregate(f.ty)
           /\ f.idx = f.ty.len
           /\ vt' = Return(Produce(vt))
    /\ UNCHANGED <<arena, calls, last, ncalls, delayed, emitted, env, evals>>

\* match valtree_result: Ok(valtree) => Ok(Some(valtree)); NodesOverflow => emit
\* MaxNumNodesInConstErr and Ok(None); NonSupportedType | Other => Ok(None).
EvalToValtreeMatch_AlwaysEmits(b) ==
    CASE b.result = "Ok" ->
            [b EXCEPT !.pc = "done", !.out = "Some", !.out_nodes = b.built]
      [] OTHER ->
            [b EXCEPT !.pc = "done", !.out = "None", !.diags = @ + 1]

EvalToValtreeMatch(b) ==
    CASE b.result = "Ok" ->
            [b EXCEPT !.pc = "done", !.out = "Some", !.out_nodes = b.built]
      [] b.result = "NodesOverflow" ->
            [b EXCEPT !.pc = "done", !.out = "None", !.diags = @ + 1]
      [] OTHER ->
            [b EXCEPT !.pc = "done", !.out = "None"]

EvalToValtreeFinish ==
    /\ vt.pc = "built"
    /\ vt' = EvalToValtreeMatch(vt)
    /\ emitted' = emitted + (vt'.diags - vt.diags)
    /\ UNCHANGED <<arena, calls, last, ncalls, delayed, env, evals>>

NextValtree ==
    \/ EvalToValtreeStart
    \/ BuildRootPlain
    \/ BuildField
    \/ BuildBranch
    \/ EvalToValtreeFinish

SpecValtree == Init /\ [][NextValtree]_vars

\* Nodes produced so far, read off the builder's position: for every aggregate
\* being built, the nodes of its fields already built.
RECURSIVE FieldsNodeCount(_, _)
FieldsNodeCount(ty, n) ==
    IF n = 0 THEN 0
    ELSE IF ty.k = "Array" THEN n * NodeCount(ty.elems[1])
    ELSE NodeCount(ty.elems[n]) + FieldsNodeCount(ty, n - 1)

RECURSIVE ProducedSoFar(_)
ProducedSoFar(stack) ==
    IF stack = <<>> THEN 0
    ELSE LET n == Len(stack)
         IN  FieldsNodeCount(stack[n].ty, stack[n].idx)
             + ProducedSoFar(SubSeq(stack, 1, n - 1))

BuilderRan == vt.pc \in {"build", "built", "done"} /\ vt.alloc_ok

\* C1: in every build started by eval_to_valtree the counter starts at 0, counts
\* every node produced (leaf and branch) and never exceeds VALTREE_MAX_NODES; a
\* constant whose canonical tree has more nodes than the ceiling ends in
\* NodesOverflow and yields no tree, complete or partial; one whose tree has at
\* most the ceiling ends in Ok with the whole tree.
NodeBudgetEnforced ==
    BuilderRan =>
        /\ vt.num_nodes <= VALTREE_MAX_NODES
        /\ vt.pc = "build" => vt.num_nodes = ProducedSoFar(vt.stack)
        /\ (vt.pc \in {"built", "done"} /\ Supported(vt.input)) =>
              IF NodeCount(vt.input) > VALTREE_MAX_NODES
              THEN /\ vt.result = "NodesOverflow"
                   /\ vt.built = 0
                   /\ vt.out \in {"-", "None"}
                   /\ vt.out_nodes = 0
              ELSE /\ vt.result = "Ok"
                   /\ vt.num_nodes = NodeCount(vt.input)
                   /\ vt.built = NodeCount(vt.input)
                   /\ vt.pc = "done" =>
                        vt.out = "Some" /\ vt.out_nodes = NodeCount(vt.input)

\* A tree of exactly one node more than the ceiling was refused with the counter
\* at the ceiling.
NodeBudgetWitness ==
    /\ vt.pc = "done" /\ vt.alloc_ok
    /\ NodeCount(vt.input) = VALTREE_MAX_NODES + 1
    /\ vt.result = "NodesOverflow"
    /\ vt.num_nodes = VALTREE_MAX_NODES
    /\ vt.out = "None"

\* C2: eval_to_valtree returns Ok(Some(tree)) exactly when the builder succeeds and
\* Ok(None), never Err, for each builder error; the max-nodes diagnostic is emitted
\* exactly once for NodesOverflow and not at all for NonSupportedType, Other or
\* success; an error of eval_to_allocation_raw is returned as Err with the builder
\* never run and nothing emitted.
EvalToValtreeResult ==
    vt.pc = "done" =>
        /\ emitted = vt.emitted_before + vt.diags
        /\ IF vt.alloc_ok
           THEN /\ vt.result \in {"Ok", "NodesOverflow", "NonSupportedType", "Other"}
                /\ vt.out = (IF vt.result = "Ok" THEN "Some" ELSE "None")
                /\ vt.diags = (IF vt.result = "NodesOverflow" THEN 1 ELSE 0)
           ELSE /\ vt.out = "Err"
                /\ vt.result = "-"
                /\ vt.num_nodes = 0
                /\ vt.diags = 0

\* A second invocation overflowed after a first one did: two diagnostics in all,
\* one per overflow.
EvalToValtreeWitness ==
    /\ vt.pc = "done" /\ vt.alloc_ok
    /\ vt.result = "NodesOverflow" /\ vt.out = "None"
    /\ vt.emitted_before = 1 /\ emitted = 2

---------------------------------------------------------------------------
(* from_anon_const and try_eval_lit_or_param *)

MaxOpCalls == 1     \* from_anon_const / destructure / caller-location calls

\* hir::Expr, one record shape: Lit(lit), Unary(op, e), Block(stmts, expr?),
\* Path(res, def_id), and any other expression kind.
Expr(k, op, stmts, lit, res, p, sub) ==
    [k |-> k, op |-> op, stmts |-> stmts, lit |-> lit, res |-> res, p |-> p,
     sub |-> sub]
\* ast::LitKind: an integer literal with its value, or a bool literal (n is 0 or 1).
LitInt(n) == [kind |-> "Int", n |-> n]
LitBool(n) == [kind |-> "Bool", n |-> n]
LitTrue == LitBool(1)

ELit(lit) == Expr("Lit", "-", 0, lit, "-", 0, <<>>)
EUnary(op, e) == Expr("Unary", op, 0, LitInt(0), "-", 0, <<e>>)
EBlock(stmts, sub) == Expr("Block", "-", stmts, LitInt(0), "-", 0, sub)
EPath(res, p) == Expr("Path", "-", 0, LitInt(0), res, p, <<>>)
EOther == Expr("Call", "-", 0, LitInt(0), "-", 0, <<>>)

LitTys == {"u8", "i16", "bool"}
SizeOfLitTy(ty) == IF ty = "i16" THEN 2 ELSE 1
Pow256(n) == IF n = 1 THEN 256 ELSE 65536

\* lit_to_const keyed by (literal, type, negated): an integer literal at an
\* integer type is the leaf of its bits (two's complement when negated), a bool
\* literal at bool is the leaf 0 or 1; a literal that does not fit the type is an
\* error.
lit_to_const(ar, lit, ty, neg) ==
    IF lit.kind = "Bool"
    THEN IF ty = "bool" /\ ~neg
         THEN [ok |-> TRUE] @@ new_value(ar, Leaf(lit.n, 1), ty)
         ELSE [ok |-> FALSE, arena |-> ar, h |-> 0]
    ELSE IF ty = "bool"
         THEN [ok |-> FALSE, arena |-> ar, h |-> 0]
         ELSE LET m == Pow256(SizeOfLitTy(ty))
                  bits == IF neg THEN (m - (lit.n % m)) % m ELSE lit.n % m
              IN  [ok |-> TRUE] @@ new_value(ar, Leaf(bits, SizeOfLitTy(ty)), ty)

\* The const generic parameters in scope: their declared type, index and name.
ConstParams == {0, 1}
ParamTy(p) == IF p = 0 THEN "usize" ELSE "bool"
ParamIndex(p) == p + 2
ParamName(p) == p + 20

\* InternalSubsts::identity_for_item(def)
IdentitySubsts(def) == 100 + def

\* tcx.named_bound_var(hir_id): Option<ResolvedArg>
Resolved(k, a, b) == [k |-> k, a |-> a, b |-> b]
Resolutions ==
    {Resolved("None", 0, 0), Resolved("EarlyBound", 0, 0),
     Resolved("StaticLifetime", 0, 0), Resolved("Free", 0, 0)}
    \cup {Resolved("LateBound", d, i) : d \in {0, 1}, i \in {0, 3}}
    \cup {Resolved("Error", g, 0) : g \in {0, 1}}

\* Unwrap a block, so that e.g. `{ P }` is recognised as a parameter.
UnwrapBlock(expr) ==
    IF expr.k = "Block" /\ expr.stmts = 0 /\ expr.sub # <<>>
    THEN expr.sub[1]
    ELSE expr

NoLit == [some |-> FALSE, lit |-> LitInt(0), neg |-> FALSE]

LitInput_DropsNeg(expr) ==
    CASE expr.k = "Lit" -> [some |-> TRUE, lit |-> expr.lit, neg |-> FALSE]
      [] expr.k = "Unary" /\ expr.op = "Neg" ->
            IF expr.sub[1].k = "Lit"
            THEN [some |-> TRUE, lit |-> expr.sub[1].lit, neg |-> FALSE]
            ELSE NoLit
      [] OTHER -> NoLit

\* let lit_input = match expr.kind { Lit | Unary(Neg, Lit) | _ }
LitInput(expr) ==
    CASE expr.k = "Lit" -> [some |-> TRUE, lit |-> expr.lit, neg |-> FALSE]
      [] expr.k = "Unary" /\ expr.op = "Neg" ->
            IF expr.sub[1].k = "Lit"
            THEN [some |-> TRUE, lit |-> expr.sub[1].lit, neg |-> TRUE]
            ELSE NoLit
      [] OTHER -> NoLit

\* The outcome of try_eval_lit_or_param: Some(c), None, or the bug! abort; with the
\* arena after it and the delayed bugs it registered.
Outcome(res, ar, c, bugs, violation) ==
    [res |-> res, arena |-> ar, c |-> c, bugs |-> bugs, violation |-> violation]

LitArm_NoDelayedBug(ar, ty, li) ==
    LET conv == lit_to_const(ar, li.lit, ty, li.neg)
    IN  IF ~li.some THEN Outcome("None", ar, 0, 0, "none")
        ELSE IF conv.ok THEN Outcome("Some", conv.arena, conv.h, 0, "none")
        ELSE Outcome("None", ar, 0, 0, "lit_conversion")

\* if let Some(lit_input) = lit_input { match lit_to_const { Ok(c) => return Some(c),
\* Err(e) => delay_span_bug } }: "None" here is falling through to the path match.
LitArm(ar, ty, li) ==
    LET conv == lit_to_const(ar, li.lit, ty, li.neg)
    IN  IF ~li.some THEN Outcome("None", ar, 0, 0, "none")
        ELSE IF conv.ok THEN Outcome("Some", conv.arena, conv.h, 0, "none")
        ELSE Outcome("None", ar, 0, 1, "lit_conversion")

ResolveConstParam_ExpectedTy(ar, ty, expr, rv) ==
    IF expr.k = "Path" /\ expr.res = "ConstParam"
    THEN CASE rv.k = "EarlyBound" ->
                LET r == new_param(ar, ParamIndex(expr.p), ParamName(expr.p), ty)
                IN  Outcome("Some", r.arena, r.h, 0, "none")
           [] rv.k = "LateBound" ->
                LET r == new_bound(ar, rv.a, rv.b, ty)
                IN  Outcome("Some", r.arena, r.h, 0, "none")
           [] rv.k = "Error" ->
                LET r == new_error(ar, rv.a, ty)
                IN  Outcome("Some", r.arena, r.h, 0, "none")
           [] OTHER -> Outcome("Bug", ar, 0, 0, "bound_var_kind")
    ELSE Outcome("None", ar, 0, 0, "none")

\* match expr.kind { Path(Resolved(_, Res::Def(ConstParam, def_id))) => ..., _ => None }
\* The constant is typed with the parameter's declared type, not the expected one.
ResolveConstParam(ar, ty, expr, rv) ==
    IF expr.k = "Path" /\ expr.res = "ConstParam"
    THEN LET param_ty == ParamTy(expr.p)
         IN  CASE rv.k = "EarlyBound" ->
                    LET r == new_param(ar, ParamIndex(expr.p), ParamName(expr.p),
                                       param_ty)
                    IN  Outcome("Some", r.arena, r.h, 0, "none")
               [] rv.k = "LateBound" ->
                    LET r == new_bound(ar, rv.a, rv.b, param_ty)
                    IN  Outcome("Some", r.arena, r.h, 0, "none")
               [] rv.k = "Error" ->
                    LET r == new_error(ar, rv.a, param_ty)
                    IN  Outcome("Some", r.arena, r.h, 0, "none")
               [] OTHER -> Outcome("Bug", ar, 0, 0, "bound_var_kind")
    ELSE Outcome("None", ar, 0, 0, "none")

try_eval_lit_or_param(ar, ty, expr0, rv) ==
    LET expr == UnwrapBlock(expr0)
        lit == LitArm(ar, ty, LitInput(expr))
    IN  IF lit.res = "Some" THEN lit
        ELSE LET par == ResolveConstParam(ar, ty, expr, rv)
             IN  [par EXCEPT !.bugs = lit.bugs,
                             !.violation = IF lit.violation # "none"
                                           THEN lit.violation ELSE @]

\* match try_eval_lit_or_param { Some(v) => v, None => new_unevaluated(def, identity) }
from_anon_const(ar, def, ty, expr, rv) ==
    LET r == try_eval_lit_or_param(ar, ty, expr, rv)
    IN  IF r.res = "None"
        THEN LET u == new_unevaluated(ar, def, IdentitySubsts(def), ty)
             IN  [r EXCEPT !.res = "Some", !.arena = u.arena, !.c = u.h]
        ELSE r

\* The anonymous constants' bodies.
AtomExprs ==
    {ELit(LitInt(3)), ELit(LitInt(200)), ELit(LitTrue), EPath("ConstParam", 0),
     EPath("ConstParam", 1), EPath("Const", 0), EOther}
Level1Exprs ==
    AtomExprs
    \cup {EUnary("Neg", e) : e \in {ELit(LitInt(3)), ELit(LitInt(200)), EPath("ConstParam", 0), EOther}}
    \cup {EUnary("Not", ELit(LitInt(3)))}
AnonExprs ==
    Level1Exprs
    \cup {EBlock(0, <<e>>) : e \in Level1Exprs}
    \cup {EBlock(1, <<e>>) : e \in {ELit(LitInt(3)), EPath("ConstParam", 0)}}
    \cup {EBlock(0, <<>>)}
    \cup {EBlock(0, <<EBlock(0, <<e>>)>>) : e \in {ELit(LitInt(3)), EPath("ConstParam", 0)}}
AnonDefs == {7, 8}

IsParamPath(e) == e.k = "Path" /\ e.res = "ConstParam"

\* named_bound_var is asked only for a const-parameter path.
ResolutionsFor(expr) ==
    IF IsParamPath(UnwrapBlock(expr)) THEN Resolutions ELSE {Resolved("None", 0, 0)}

FromAnonConst ==
  /\ ncalls < MaxOpCalls
  /\
    \E def \in AnonDefs, ty \in LitTys, expr \in AnonExprs :
      \E rv \in ResolutionsFor(expr) :
        LET r == from_anon_const(arena, def, ty, expr, rv)
        IN  /\ arena' = r.arena
            /\ delayed' = delayed + r.bugs
            /\ last' = [op |-> "from_anon_const", def |-> def, ty |-> ty,
                        expr |-> expr, rv |-> rv, before |-> arena,
                        fault |-> IF r.res = "Bug" THEN "bug" ELSE "none",
                        c |-> r.c, bugs |-> r.bugs, violation |-> r.violation]
            /\ ncalls' = ncalls + 1
            /\ UNCHANGED <<calls, emitted, vt, env, evals>>

---------------------------------------------------------------------------
(* try_destructure_mir_constant *)

\* val.ty().kind(): Array(_, len), Adt(def, _) with def's variants (the number of
\* fields of each), Tuple(substs), or any other kind.  len is a Const, which
\* eval_target_usize can or cannot evaluate.
DTy(k, adt, variants, len, len_known) ==
    [k |-> k, adt |-> adt, variants |-> variants, len |-> len,
     len_known |-> len_known]
DArray(len, known) == DTy("Array", "-", <<>>, len, known)
DTuple(n) == DTy("Tuple", "-", <<>>, n, TRUE)
DStruct(n) == DTy("Adt", "struct", <<n>>, 0, TRUE)
DEnum(variants) == DTy("Adt", "enum", variants, 0, TRUE)
DOther == DTy("Int", "-", <<>>, 0, TRUE)

\* The evaluated operand: the variant its discriminant selects (-1: the
\* discriminant is no variant's) and the values of its fields, in declaration order.
FieldsOf(base, n) == [i \in 1..n |-> base + i]

DResult(res, err, vsome, variant, fields, violation) ==
    [res |-> res, err |-> err, variant_some |-> vsome, variant |-> variant,
     fields |-> fields, violation |-> violation]
DErr(err, violation) == DResult("Err", err, FALSE, 0, <<>>, violation)
DBug == DResult("Bug", "-", FALSE, 0, <<>>, "none")

\* (field_count, variant, down), or the error / abort of the match.
Shaped(res, err, n, vsome, variant, violation) ==
    [res |-> res, err |-> err, field_count |-> n, variant_some |-> vsome,
     variant |-> variant, violation |-> violation]

DestructureMatch_EmptyForNoVariants(ty, disc) ==
    CASE ty.k = "Array" ->
            IF ty.len_known THEN Shaped("Ok", "-", ty.len, FALSE, 0, "none")
            ELSE Shaped("Bug", "-", 0, FALSE, 0, "none")
      [] ty.k = "Adt" /\ ty.variants = <<>> ->
            Shaped("Ok", "-", 0, FALSE, 0, "none")
      [] ty.k = "Adt" ->
            IF disc \in 0..(Len(ty.variants) - 1)
            THEN Shaped("Ok", "-", ty.variants[disc + 1], TRUE, disc, "none")
            ELSE Shaped("Err", "InvalidTag", 0, FALSE, 0, "none")
      [] ty.k = "Tuple" -> Shaped("Ok", "-", ty.len, FALSE, 0, "none")
      [] OTHER -> Shaped("Bug", "-", 0, FALSE, 0, "none")

DestructureMatch_NoneForStruct(ty, disc) ==
    CASE ty.k = "Array" ->
            IF ty.len_known THEN Shaped("Ok", "-", ty.len, FALSE, 0, "none")
            ELSE Shaped("Bug", "-", 0, FALSE, 0, "none")
      [] ty.k = "Adt" /\ ty.variants = <<>> ->
            Shaped("Err", "Unreachable", 0, FALSE, 0, "zero_variant_enum")
      [] ty.k = "Adt" ->
            IF disc \in 0..(Len(ty.variants) - 1)
            THEN Shaped("Ok", "-", ty.variants[disc + 1], ty.adt = "enum", 
                        IF ty.adt = "enum" THEN disc ELSE 0, "none")
            ELSE Shaped("Err", "InvalidTag", 0, FALSE, 0, "none")
      [] ty.k = "Tuple" -> Shaped("Ok", "-", ty.len, FALSE, 0, "none")
      [] OTHER -> Shaped("Bug", "-", 0, FALSE, 0, "none")

\* let (field_count, variant, down) = match val.ty().kind() { ... }
\* disc is what read_discriminant reads from the operand.
DestructureMatch(ty, disc) ==
    CASE ty.k = "Array" ->
            IF ty.len_known THEN Shaped("Ok", "-", ty.len, FALSE, 0, "none")
            ELSE Shaped("Bug", "-", 0, FALSE, 0, "none")
      [] ty.k = "Adt" /\ ty.variants = <<>> ->
            Shaped("Err", "Unreachable", 0, FALSE, 0, "zero_variant_enum")
      [] ty.k = "Adt" ->
            IF disc \in 0..(Len(ty.variants) - 1)
            THEN Shaped("Ok", "-", ty.variants[disc + 1], TRUE, disc, "none")
            ELSE Shaped("Err", "InvalidTag", 0, FALSE, 0, "none")
      [] ty.k = "Tuple" -> Shaped("Ok", "-", ty.len, FALSE, 0, "none")
      [] OTHER -> Shaped("Bug", "-", 0, FALSE, 0, "none")

\* (0..field_count).map(|i| operand_field(&down, i)? ...).collect()?
\* bad_field is the first field whose projection fails (0: none does).
DestructureFields(m, op_fields, bad_field) ==
    IF bad_field \in 1..m.field_count
    THEN DErr("FieldProjection", "none")
    ELSE DResult("Ok", "-", m.variant_some, m.variant,
                 [i \in 1..m.field_count |-> op_fields[i]], "none")

try_destructure_mir_constant(ty, eval_err, disc, op_fields, bad_field) ==
    IF eval_err # "-" THEN DErr(eval_err, "none")
    ELSE LET m == DestructureMatch(ty, disc)
         IN  CASE m.res = "Err" -> DErr(m.err, m.violation)
               [] m.res = "Bug" -> DBug
               [] OTHER -> DestructureFields(m, op_fields, bad_field)

SmallCounts == 0..MaxSmallLen
DestructureTys ==
    {DArray(n, TRUE) : n \in SmallCounts} \cup {DArray(1, FALSE)}
    \cup {DTuple(n) : n \in SmallCounts}
    \cup {DStruct(n) : n \in SmallCounts}
    \cup {DEnum(<<>>)}
    \cup {DEnum(<<a>>) : a \in SmallCounts}
    \cup {DEnum(<<a, b>>) : a, b \in SmallCounts}
    \cup {DOther}

\* What read_discriminant can read for a type: a struct's only variant, one of an
\* enum's variants, or (an enum's) invalid tag.
DiscsFor(ty) ==
    IF ty.k = "Adt" /\ ty.adt = "struct" THEN {0}
    ELSE IF ty.k = "Adt" THEN (0..(Len(ty.variants) - 1)) \cup {-1}
    ELSE {0}

MaxFieldCount(ty) ==
    IF ty.k = "Adt"
    THEN IF ty.variants = <<>> THEN 0
         ELSE CHOOSE n \in SmallCounts \cup {MaxSmallLen + 1} :
                /\ \E i \in 1..Len(ty.variants) : ty.variants[i] = n
                /\ \A i \in 1..Len(ty.variants) : ty.variants[i] <= n
    ELSE ty.len

TryDestructure ==
  /\ ncalls < MaxOpCalls
  /\
    \E ty \in DestructureTys, eval_err \in {"-", "TooGeneric", "Reported"},
       base \in {10, 20} :
      \E disc \in DiscsFor(ty), bad_field \in 0..MaxFieldCount(ty) :
        LET op_fields == FieldsOf(base, MaxFieldCount(ty))
            r == try_destructure_mir_constant(ty, eval_err, disc, op_fields,
                                              bad_field)
        IN  /\ last' = [op |-> "try_destructure_mir_constant", ty |-> ty,
                        eval_err |-> eval_err, disc |-> disc,
                        op_fields |-> op_fields, bad_field |-> bad_field,
                        fault |-> IF r.res = "Bug" THEN "bug" ELSE "none",
                        bugs |-> 0, violation |-> r.violation, r |-> r]
            /\ ncalls' = ncalls + 1
            /\ UNCHANGED <<arena, calls, delayed, emitted, vt, env, evals>>

---------------------------------------------------------------------------
(* const_caller_location *)

const_caller_location_DelaysBug(file, line, col, intern_ok) ==
    IF ~intern_ok
    THEN [fault |-> "bug", bugs |-> 1, violation |-> "caller_location_intern",
          value |-> <<>>]
    ELSE [fault |-> "none", bugs |-> 0, violation |-> "none",
          value |-> <<file, line, col>>]

\* if intern_const_alloc_recursive(..).is_err() { bug!(..) }
\* ConstValue::Scalar(pointer to the location record)
const_caller_location(file, line, col, intern_ok) ==
    IF ~intern_ok
    THEN [fault |-> "bug", bugs |-> 0, violation |-> "caller_location_intern",
          value |-> <<>>]
    ELSE [fault |-> "none", bugs |-> 0, violation |-> "none",
          value |-> <<file, line, col>>]

ConstCallerLocation ==
  /\ ncalls < MaxOpCalls
  /\
    \E file \in {1, 2}, line \in {1, 2}, col \in {1, 2}, intern_ok \in BOOLEAN :
        LET r == const_caller_location(file, line, col, intern_ok)
        IN  /\ last' = [op |-> "const_caller_location", file |-> file,
                        line |-> line, col |-> col, intern_ok |-> intern_ok]
                       @@ r
            /\ delayed' = delayed + r.bugs
            /\ ncalls' = ncalls + 1
            /\ UNCHANGED <<arena, calls, emitted, vt, env, evals>>

NextOps ==
    \/ FromAnonConst
    \/ TryDestructure
    \/ ConstCallerLocation

SpecOps == Init /\ [][NextOps]_vars

---------------------------------------------------------------------------
(* Claims about the resolver, the destructurer and the internal faults *)

IsFromAnonConst == last.op = "from_anon_const"
IsDestructure == last.op = "try_destructure_mir_constant"

\* The expression with one statement-free block wrapper removed.
Unwrapped(e) ==
    IF e.k = "Block" /\ e.stmts = 0 /\ Len(e.sub) = 1 THEN e.sub[1] ELSE e

IsLitExpr(e) == e.k = "Lit"
IsNegLitExpr(e) == e.k = "Unary" /\ e.op = "Neg" /\ e.sub[1].k = "Lit"

Returned(data) ==
    /\ last.fault = "none"
    /\ last.c \in 1..Len(arena)
    /\ arena[last.c] = data

\* C7: a path to a const generic parameter (after unwrapping one statement-free
\* block) resolves to a constant typed with the parameter's declared type whose
\* kind follows the bound-variable resolution: early-bound gives Param(index, name),
\* late-bound gives Bound(depth, index), an error gives Error with the same token;
\* any other resolution, none included, is the bug! abort: no constant, no fallback.
ParamResolution ==
    (IsFromAnonConst /\ IsParamPath(Unwrapped(last.expr))) =>
        LET p == Unwrapped(last.expr).p
            rv == last.rv
        IN  CASE rv.k = "EarlyBound" ->
                    Returned(ConstData(ParamTy(p), KParam(ParamIndex(p), ParamName(p))))
              [] rv.k = "LateBound" ->
                    Returned(ConstData(ParamTy(p), KBound(rv.a, rv.b)))
              [] rv.k = "Error" ->
                    Returned(ConstData(ParamTy(p), KError(rv.a)))
              [] OTHER ->
                    /\ last.fault = "bug"
                    /\ last.c = 0
                    /\ arena = last.before

\* `{ N }` with N late-bound became Bound at N's declared type, which is not the
\* expected type.
ParamResolutionWitness ==
    /\ IsFromAnonConst
    /\ last.expr = EBlock(0, <<EPath("ConstParam", 0)>>)
    /\ last.rv = Resolved("LateBound", 1, 3)
    /\ last.ty = "u8"
    /\ last.fault = "none"
    /\ arena[last.c] = ConstData("usize", KBound(1, 3))

\* C10: for a literal or negated literal (after unwrapping one statement-free
\* block), from_anon_const returns exactly the constant lit_to_const converts it
\* to and registers no delayed bug when the conversion succeeds; when it fails,
\* exactly one delayed bug is registered and the result is the Unevaluated constant
\* of the definition with identity substs; every expression that is neither a
\* (negated) literal nor a const-parameter path gives that Unevaluated constant
\* with no delayed bug.
LiteralResolution ==
    IsFromAnonConst =>
        LET e == Unwrapped(last.expr)
            unevaluated ==
                ConstData(last.ty, KUnevaluated(last.def, IdentitySubsts(last.def)))
        IN  IF IsLitExpr(e) \/ IsNegLitExpr(e)
            THEN LET lit == IF IsLitExpr(e) THEN e.lit ELSE e.sub[1].lit
                     conv == lit_to_const(last.before, lit, last.ty, IsNegLitExpr(e))
                 IN  IF conv.ok
                     THEN /\ last.fault = "none"
                          /\ last.c = conv.h
                          /\ arena = conv.arena
                          /\ last.bugs = 0
                     ELSE /\ Returned(unevaluated)
                          /\ last.bugs = 1
            ELSE IF ~IsParamPath(e)
            THEN Returned(unevaluated) /\ last.bugs = 0
            ELSE TRUE

\* `-200` at i16 became the leaf of its two's complement bits.
LiteralResolutionWitness ==
    /\ IsFromAnonConst
    /\ last.expr = EBlock(0, <<EUnary("Neg", ELit(LitInt(200)))>>)
    /\ last.ty = "i16"
    /\ arena[last.c] = ConstData("i16", KValue(Leaf(65336, 2)))
    /\ delayed = 0

FieldCountOf(ty, variant) ==
    IF ty.k = "Adt" THEN ty.variants[variant + 1] ELSE ty.len

FieldsInOrder ==
    /\ Len(last.r.fields) = FieldCountOf(last.ty, last.r.variant)
    /\ \A i \in 1..Len(last.r.fields) : last.r.fields[i] = last.op_fields[i]

\* C5 as claimed: the variant is None for every non-enum aggregate (array, tuple,
\* struct) and Some(the discriminant's variant) for an enum, with the fields in
\* declaration order.
DestructureVariantNoneForNonEnum ==
    (IsDestructure /\ last.r.res = "Ok") =>
        /\ last.r.variant_some <=> (last.ty.k = "Adt" /\ last.ty.adt = "enum")
        /\ last.r.variant_some => last.r.variant = last.disc
        /\ FieldsInOrder

\* C5, amended: the variant is None for arrays and tuples and Some(the variant
\* read_discriminant reads) for every ADT, struct (Some(0)) and enum alike, with
\* exactly field-count field constants in declaration order.
DestructureVariant ==
    (IsDestructure /\ last.r.res = "Ok") =>
        /\ last.r.variant_some <=> (last.ty.k = "Adt")
        /\ last.r.variant_some => last.r.variant = last.disc
        /\ (last.ty.k = "Adt" /\ last.ty.adt = "struct") => last.r.variant = 0
        /\ FieldsInOrder

\* A struct of two fields was destructured to Some(0) and its two fields.
DestructureVariantWitness ==
    /\ IsDestructure
    /\ last.ty = DStruct(2)
    /\ last.r.res = "Ok"
    /\ last.r.variant_some /\ last.r.variant = 0
    /\ last.r.fields = <<11, 12>>

IsZeroVariantEnum(ty) == ty.k = "Adt" /\ ty.variants = <<>>

\* C6 as claimed: destructuring a constant of a zero-variant enum type always
\* fails with Unreachable, never with another error.
ZeroVariantAlwaysUnreachable ==
    (IsDestructure /\ IsZeroVariantEnum(last.ty)) =>
        last.r.res = "Err" /\ last.r.err = "Unreachable"

\* C6, amended: destructuring a constant of a zero-variant enum type never returns
\* a DestructuredConstant and never aborts; it fails with Unreachable whenever the
\* constant evaluates to an operand, and with eval_mir_constant's error otherwise.
ZeroVariantFails ==
    (IsDestructure /\ IsZeroVariantEnum(last.ty)) =>
        /\ last.r.res = "Err"
        /\ last.r.fields = <<>>
        /\ last.r.err = (IF last.eval_err = "-" THEN "Unreachable" ELSE last.eval_err)

ZeroVariantWitness ==
    /\ IsDestructure
    /\ IsZeroVariantEnum(last.ty)
    /\ last.eval_err = "-"
    /\ last.r.res = "Err" /\ last.r.err = "Unreachable"

InternalViolations ==
    {"bound_var_kind", "zero_variant_enum", "lit_conversion", "caller_location_intern"}

IsFaultOp ==
    last.op \in {"from_anon_const", "try_destructure_mir_constant",
                 "const_caller_location"}

\* The operation ended in the fault of an internal violation: the bug! abort, or
\* the Unreachable error.
Aborted ==
    \/ last.fault = "bug"
    \/ IsDestructure /\ last.r.res = "Err" /\ last.r.err = "Unreachable"

\* C9 as claimed: the fault of every internal invariant violation comes after a
\* delayed bug was registered for it on the same execution.
FaultAfterDelayedBug ==
    (IsFaultOp /\ last.violation \in InternalViolations /\ Aborted) =>
        last.bugs >= 1 /\ delayed >= 1

\* C9, amended: only a failed literal conversion registers a delayed bug, exactly
\* one, and no fault follows it (the resolver falls through); a malformed
\* bound-variable resolution and a failed caller-location interning abort with
\* bug! and a zero-variant enum fails with Unreachable, each with no delayed bug
\* registered.
FaultsAndDelayedBugs ==
    IsFaultOp =>
        /\ last.violation = "lit_conversion" =>
              last.bugs = 1 /\ ~Aborted /\ delayed >= 1
        /\ last.violation \in {"bound_var_kind", "caller_location_intern"} =>
              last.fault = "bug" /\ last.bugs = 0
        /\ last.violation = "zero_variant_enum" =>
              Aborted /\ last.fault = "none" /\ last.bugs = 0
        /\ last.bugs >= 1 => last.violation = "lit_conversion"

\* Caller-location interning failed: the abort came with no delayed bug at all.
FaultsWitness ==
    /\ last.op = "const_caller_location"
    /\ ~last.intern_ok
    /\ last.fault = "bug"
    /\ delayed = 0

---------------------------------------------------------------------------
(* Const::eval and the numeric accessors *)

MaxEvalConsts == 1  \* constants constructed before / between evaluations
MaxEvalCalls == 2   \* Const::eval calls per behaviour

Envs == {1, 2}

\* What evaluating Unevaluated(def, substs) for typeck gives under an environment:
\* a valtree, a reported error, "too generic", or no valtree (creation failed).
Evaluated(k, v, guar) == [k |-> k, vt |-> v, guar |-> guar]
QueryOutcome(e, def, substs) ==
    CASE e = 1 /\ def = 0 /\ substs = 0 -> Evaluated("Value", Leaf(1, 1), 0)
      [] e = 1 /\ def = 0 /\ substs = 1 -> Evaluated("TooGeneric", ValTree_zst, 0)
      [] e = 1 /\ def = 1 /\ substs = 0 -> Evaluated("Reported", ValTree_zst, 1)
      [] e = 2 /\ def = 0 /\ substs = 0 -> Evaluated("Value", Leaf(5, 8), 0)
      [] e = 2 /\ def = 0 /\ substs = 1 -> Evaluated("Value", Branch(<<Leaf(1, 1)>>), 0)
      [] e = 2 /\ def = 1 /\ substs = 0 -> Evaluated("TooGeneric", ValTree_zst, 0)
      [] e = 2 /\ def = 1 /\ substs = 1 -> Evaluated("Reported", ValTree_zst, 0)
      [] OTHER -> Evaluated("NoValTree", ValTree_zst, 0)

\* ConstKind::try_eval_for_typeck: Some(Ok(valtree)), Some(Err(guar)) or None; only
\* an Unevaluated kind is evaluated.
try_eval_for_typeck(kind, e) ==
    LET q == QueryOutcome(e, kind.a, kind.b)
    IN  IF kind.tag = "Unevaluated" /\ q.k = "Value"
        THEN [some |-> TRUE, ok |-> TRUE, vt |-> q.vt, guar |-> 0]
        ELSE IF kind.tag = "Unevaluated" /\ q.k = "Reported"
        THEN [some |-> TRUE, ok |-> FALSE, vt |-> ValTree_zst, guar |-> q.guar]
        ELSE [some |-> FALSE, ok |-> FALSE, vt |-> ValTree_zst, guar |-> 0]

Const_eval_KeepsSelfOnError(ar, c, e) ==
    LET r == try_eval_for_typeck(Const_kind(ar, c), e)
    IN  IF r.some /\ r.ok THEN new_value(ar, r.vt, Const_ty(ar, c))
        ELSE [arena |-> ar, h |-> c]

\* Tries to evaluate the constant if it is Unevaluated. If that doesn't succeed,
\* return the unevaluated constant.
Const_eval(ar, c, e) ==
    LET r == try_eval_for_typeck(Const_kind(ar, c), e)
    IN  IF r.some
        THEN IF r.ok THEN new_value(ar, r.vt, Const_ty(ar, c))
             ELSE new_error(ar, r.guar, Const_ty(ar, c))
        ELSE [arena |-> ar, h |-> c]

\* ConstKind::eval: the kind after evaluation (nothing is interned).
ConstKind_eval(kind, e) ==
    LET r == try_eval_for_typeck(kind, e)
    IN  IF r.some
        THEN IF r.ok THEN KValue(r.vt) ELSE KError(r.guar)
        ELSE kind

\* tcx.layout_of(param_env.and(ty)): the size in bytes, or an error.
PointerSize == 8
layout_of(ty) ==
    CASE ty = "bool" -> [ok |-> TRUE, size |-> 1]
      [] ty = "usize" -> [ok |-> TRUE, size |-> PointerSize]
      [] OTHER -> [ok |-> FALSE, size |-> 0]

Some(v) == [some |-> TRUE, v |-> v]
None == [some |-> FALSE, v |-> 0]

\* ConstKind::try_to_bits / try_to_bool / try_to_target_usize: the bits of a Value
\* that is a scalar leaf of the expected width.
try_to_bits(kind, size) ==
    IF kind.tag = "Value" /\ kind.vt.leaf /\ kind.vt.size = size
    THEN Some(kind.vt.data) ELSE None
try_to_bool(kind) == try_to_bits(kind, 1)
try_to_target_usize(kind) == try_to_bits(kind, PointerSize)

Accessed(fault, r) == [fault |-> fault, some |-> r.some, v |-> r.v]

Const_try_eval_bits_NoAssert(ar, c, e, ty) ==
    IF ~layout_of(ty).ok THEN Accessed("none", None)
    ELSE Accessed("none", try_to_bits(ConstKind_eval(Const_kind(ar, c), e),
                                      layout_of(ty).size))

\* assert_eq!(self.ty(), ty); let size = layout_of(ty).ok()?.size;
\* self.kind().eval(tcx, param_env).try_to_bits(size)
Const_try_eval_bits(ar, c, e, ty) ==
    IF Const_ty(ar, c) # ty THEN Accessed("assert", None)
    ELSE IF ~layout_of(ty).ok THEN Accessed("none", None)
    ELSE Accessed("none", try_to_bits(ConstKind_eval(Const_kind(ar, c), e),
                                      layout_of(ty).size))

Const_try_eval_bool(ar, c, e) ==
    Accessed("none", try_to_bool(ConstKind_eval(Const_kind(ar, c), e)))

Const_try_eval_target_usize(ar, c, e) ==
    Accessed("none", try_to_target_usize(ConstKind_eval(Const_kind(ar, c), e)))

\* try_eval_bits(..).unwrap_or_else(|| bug!(..))
Const_eval_bits(ar, c, e, ty) ==
    LET r == Const_try_eval_bits(ar, c, e, ty)
    IN  IF r.fault = "none" /\ ~r.some THEN Accessed("bug", None) ELSE r

\* try_eval_target_usize(..).unwrap_or_else(|| bug!(..))
Const_eval_target_usize(ar, c, e) ==
    LET r == Const_try_eval_target_usize(ar, c, e)
    IN  IF ~r.some THEN Accessed("bug", None) ELSE r

InitEval ==
    /\ arena = <<>>
    /\ calls = {}
    /\ last = NoOp
    /\ ncalls = 0
    /\ delayed = 0
    /\ emitted = 0
    /\ vt = VtIdle
    /\ env \in Envs
    /\ evals = {}

Eval ==
    /\ ncalls < MaxEvalConsts + MaxEvalCalls
    /\ \E c \in 1..Len(arena) :
        LET r == Const_eval(arena, c, env)
        IN  /\ arena' = r.arena
            /\ evals' = evals \cup {[c |-> c, r |-> r.h]}
            /\ last' = [op |-> "eval", c |-> c, r |-> r.h, before |-> arena]
    /\ ncalls' = ncalls + 1
    /\ UNCHANGED <<calls, delayed, emitted, vt, env>>

\* An accessor call: it changes nothing and is recorded with its outcome.
Access(op, c, ty, r) ==
    /\ last' = [op |-> op, c |-> c, ty |-> ty] @@ r
    /\ UNCHANGED <<arena, calls, ncalls, delayed, emitted, vt, env, evals>>

TryEvalBits ==
    \E c \in 1..Len(arena), ty \in InternTys :
        Access("try_eval_bits", c, ty, Const_try_eval_bits(arena, c, env, ty))

TryEvalBool ==
    \E c \in 1..Len(arena) :
        Access("try_eval_bool", c, "bool", Const_try_eval_bool(arena, c, env))

TryEvalTargetUsize ==
    \E c \in 1..Len(arena) :
        Access("try_eval_target_usize", c, "usize",
               Const_try_eval_target_usize(arena, c, env))

EvalBits ==
    \E c \in 1..Len(arena), ty \in InternTys :
        Access("eval_bits", c, ty, Const_eval_bits(arena, c, env, ty))

EvalTargetUsize ==
    \E c \in 1..Len(arena) :
        Access("eval_target_usize", c, "usize",
               Const_eval_target_usize(arena, c, env))

NextEval ==
    \/ (ncalls < MaxEvalConsts /\ NewParam)
    \/ (ncalls < MaxEvalConsts /\ NewUnevaluated)
    \/ (ncalls < MaxEvalConsts /\ NewValue)
    \/ (ncalls < MaxEvalConsts /\ NewExpr)
    \/ (ncalls < MaxEvalConsts /\ NewError)
    \/ Eval
    \/ TryEvalBits
    \/ TryEvalBool
    \/ TryEvalTargetUsize
    \/ EvalBits
    \/ EvalTargetUsize

SpecEval == InitEval /\ [][NextEval]_vars

\* What evaluation under the environment makes of a constant's data.
ExpectedEval(d) ==
    LET q == QueryOutcome(env, d.kind.a, d.kind.b)
    IN  IF d.kind.tag = "Unevaluated" /\ q.k = "Value"
        THEN ConstData(d.ty, KValue(q.vt))
        ELSE IF d.kind.tag = "Unevaluated" /\ q.k = "Reported"
        THEN ConstData(d.ty, KError(q.guar))
        ELSE d

IsAccessor ==
    last.op \in {"try_eval_bits", "try_eval_bool", "try_eval_target_usize",
                 "eval_bits", "eval_target_usize"}

\* The accessor's precondition: the type's layout is computable and the constant
\* evaluates to a Value that is a scalar leaf of that size.
LeafOfSize(d, size) ==
    /\ ExpectedEval(d).kind.tag = "Value"
    /\ ExpectedEval(d).kind.vt.leaf
    /\ ExpectedEval(d).kind.vt.size = size
Available(d, ty) ==
    /\ ty \in {"bool", "usize"}
    /\ LeafOfSize(d, IF ty = "bool" THEN 1 ELSE 8)

\* C8 as claimed: try_eval_bits, try_eval_bool and try_eval_target_usize never
\* fault, for every constant and every type argument, and return None whenever
\* the precondition is unmet; eval_bits and eval_target_usize fault exactly when
\* the try_ accessor returns None.
AccessorsNeverFault ==
    IsAccessor =>
        /\ last.op \in {"try_eval_bits", "try_eval_bool", "try_eval_target_usize"} =>
              /\ last.fault = "none"
              /\ last.some <=> Available(arena[last.c], last.ty)
        /\ last.op \in {"eval_bits", "eval_target_usize"} =>
              (last.fault # "none") <=> ~Available(arena[last.c], last.ty)

\* C8, amended: try_eval_bool and try_eval_target_usize never fault and return
\* None whenever the precondition is unmet; try_eval_bits faults (assert_eq!)
\* exactly when its type argument is not the constant's type and otherwise returns
\* None whenever the precondition is unmet; eval_target_usize faults exactly when
\* try_eval_target_usize returns None, eval_bits exactly when try_eval_bits faults
\* or returns None.
AccessorsAvailability ==
    IsAccessor =>
        LET d == arena[last.c]
        IN  /\ last.op \in {"try_eval_bool", "try_eval_target_usize"} =>
                  /\ last.fault = "none"
                  /\ last.some <=> Available(d, last.ty)
            /\ last.op = "try_eval_bits" =>
                  /\ (last.fault = "assert") <=> (last.ty # d.ty)
                  /\ last.fault \in {"assert", "none"}
                  /\ last.some <=> (last.ty = d.ty /\ Available(d, last.ty))
            /\ last.op = "eval_target_usize" =>
                  /\ (last.fault = "bug") <=> ~Available(d, last.ty)
                  /\ last.fault \in {"bug", "none"}
            /\ last.op = "eval_bits" =>
                  /\ (last.fault = "assert") <=> (last.ty # d.ty)
                  /\ (last.fault = "bug") <=> (last.ty = d.ty /\ ~Available(d, last.ty))
                  /\ last.fault \in {"assert", "bug", "none"}
            /\ last.some => last.v = ExpectedEval(d).kind.vt.data

\* try_eval_bits was called on a bool constant with the type usize and aborted.
AccessorsWitness ==
    /\ last.op = "try_eval_bits"
    /\ arena[last.c].ty = "bool"
    /\ last.ty = "usize"
    /\ last.fault = "assert"

=============================================================================
